---------------------------- MODULE Spec2Model ----------------------------
(***************************************************************************)
(* A model of the numerical utilities of the repository:                   *)
(*   python/smoothing.py  local polynomial kernel smoother and its         *)
(*                        leave-one-out bandwidth selection                *)
(*   python/optim.py      finite-difference gradient checking              *)
(*   python/edf.py        the record-reading loop of the EDF reader        *)
(*                                                                         *)
(* Real numbers are exact rationals <<num, den>> in lowest terms with      *)
(* den > 0.  A zero denominator stands for a non-finite float (nan, inf),  *)
(* which numpy produces instead of raising when an array is divided by 0.  *)
(***************************************************************************)
EXTENDS Integers, Sequences, FiniteSets, TLC

VARIABLES
    \* ---- KernelSmoother and its caller (smoothing.py 9-49) ----
    heap,       \* array storage: array id -> sequence of rationals
    smoother,   \* the KernelSmoother object: _x, _y (array ids), _h, _d, _kernel
    spc,        \* "new" | "idle" | "loop" | "raised"
    xnew,       \* __call__: the query points
    qi,         \* __call__: loop index i (0-based, as in the code)
    ynew,       \* __call__: the local output array
    X,          \* __call__: design matrix of the last iteration
    w,          \* __call__: weight vector of the last iteration
    sres,       \* what the last __call__ gave its caller
    built,      \* history: the sample set and configuration given to __init__
    writes,     \* number of writes the caller made to its own arrays since __init__
    \* ---- estimate_bandwidth / loo_estimates (smoothing.py 73-126) ----
    ex, ey,     \* the samples
    ebw,        \* the candidate bandwidths
    edeg,       \* the degree
    epc,        \* "loop" | "returned" | "raised"
    ei,         \* index of the candidate being evaluated (0-based)
    emse,       \* mse array
    lyhat,      \* the yhat array loo_estimates returned last
    eres,       \* what estimate_bandwidth gave its caller
    \* ---- check_gradient / gradient (optim.py 19-82) ----
    gf,         \* f as a table: gf[1] = f(x), gf[i+1] = f(x + s*e_i)
    gg,         \* g(x)
    gi,         \* gradient: loop index i (0-based)
    gforw,      \* gradient: forw array
    gpc,        \* "gradient" | "returned"
    gres,       \* what check_gradient returned
    \* ---- _read_signals / _read_record (edf.py 107-169) ----
    spr,        \* header['samples_per_record'], one entry per signal
    flen,       \* bytes in the file after the header
    fpos,       \* file position, counted from the end of the header
    chan,       \* _read_record: channel index (0-based)
    record,     \* _read_record: number of channels in the record so far
    signals,    \* per channel, the number of records appended to its list
    dpc         \* "reading" | "left"

smVars == <<heap, smoother, spc, xnew, qi, ynew, X, w, sres, built, writes>>
loVars == <<ex, ey, ebw, edeg, epc, ei, emse, lyhat, eres>>
grVars == <<gf, gg, gi, gforw, gpc, gres>>
edVars == <<spr, flen, fpos, chan, record, signals, dpc>>
vars == <<smVars, loVars, grVars, edVars>>

-----------------------------------------------------------------------------
(* Bounds of the model.                                                    *)
MaxN == 2           \* longest sample set given to KernelSmoother
MaxQ == 2           \* longest list of query points
MaxLooN == 3        \* longest sample set given to estimate_bandwidth
MaxCand == 2        \* longest list of candidate bandwidths
MaxDim == 2         \* largest dimension of x in check_gradient
MaxSignals == 2     \* most signals in an EDF header
MaxSpr == 2         \* largest samples-per-record count of a signal
MaxFileLen == 6     \* most bytes after the EDF header

-----------------------------------------------------------------------------
(* Exact rational arithmetic, standing for numpy's float64.                *)

Abs(n) == IF n < 0 THEN -n ELSE n
Sign(n) == IF n < 0 THEN -1 ELSE IF n = 0 THEN 0 ELSE 1

RECURSIVE GCD(_, _)
GCD(a, b) == IF b = 0 THEN a ELSE GCD(b, a % b)

Norm(n, d) ==
    IF d = 0 THEN <<Sign(n), 0>>
    ELSE LET g == GCD(Abs(n), Abs(d))
             s == IF d < 0 THEN -1 ELSE 1
         IN  <<(s * n) \div g, (s * d) \div g>>

R(n) == <<n, 1>>
NaN == <<0, 0>>
Finite(r) == r[2] # 0

RAdd(a, b) == IF Finite(a) /\ Finite(b)
              THEN Norm(a[1] * b[2] + b[1] * a[2], a[2] * b[2]) ELSE NaN
RNeg(a) == <<-a[1], a[2]>>
RSub(a, b) == RAdd(a, RNeg(b))
RMul(a, b) == IF Finite(a) /\ Finite(b)
              THEN Norm(a[1] * b[1], a[2] * b[2]) ELSE NaN
\* x / 0 is nan or +-inf in numpy (a warning, no exception)
RDiv(a, b) == IF Finite(a) /\ Finite(b)
              THEN Norm(a[1] * b[2], a[2] * b[1]) ELSE NaN
RAbs(a) == <<Abs(a[1]), a[2]>>
\* comparisons with a non-finite operand follow nan: they are false
RLt(a, b) == Finite(a) /\ Finite(b) /\ a[1] * b[2] < b[1] * a[2]
RLe(a, b) == Finite(a) /\ Finite(b) /\ a[1] * b[2] <= b[1] * a[2]

RECURSIVE RPow(_, _)
RPow(a, p) == IF p = 0 THEN R(1) ELSE RMul(a, RPow(a, p - 1))

\* sum of f[1..n]
RECURSIVE RSum(_, _)
RSum(f, n) == IF n = 0 THEN R(0) ELSE RAdd(RSum(f, n - 1), f[n])

-----------------------------------------------------------------------------
(* numpy arrays and matrices.  A vector is a sequence; a matrix is a       *)
(* record [m, n, a] with a[i][j] its entries, so that shapes with a zero   *)
(* dimension keep their other dimension.  ndim = 1 marks the empty 1-D     *)
(* array that np.array([]).T is.                                           *)

\* a sequence given by a function constructor, computed once as a tuple
Arr(s) == s \o <<>>

Mat(m, n, a) ==
    [ndim |-> 2, m |-> m, n |-> n, a |-> Arr([i \in 1..m |-> Arr(a[i])])]
Empty1D == [ndim |-> 1, m |-> 0, n |-> 0, a |-> <<>>]

Transpose(M) ==
    IF M.ndim = 1 THEN M
    ELSE Mat(M.n, M.m, [j \in 1..M.n |-> [i \in 1..M.m |-> M.a[i][j]]])

\* np.diag
Diag(v) ==
    Mat(Len(v), Len(v),
        [i \in 1..Len(v) |-> [j \in 1..Len(v) |-> IF i = j THEN v[i] ELSE R(0)]])

\* A @ B for two matrices of matching inner dimension
MatMul(A, B) ==
    Mat(A.m, B.n,
        [i \in 1..A.m |-> [j \in 1..B.n |->
            RSum([k \in 1..A.n |-> RMul(A.a[i][k], B.a[k][j])], A.n)]])

\* A @ v for a matrix and a vector of matching dimension
MatVec(A, v) ==
    Arr([i \in 1..A.m |-> RSum([k \in 1..A.n |-> RMul(A.a[i][k], v[k])], A.n)])

\* the matrix without row 1 and column j
Minor(a, n, j) ==
    Arr([r \in 1..(n - 1) |-> Arr([c \in 1..(n - 1) |->
        a[r + 1][IF c < j THEN c ELSE c + 1]])])

RECURSIVE Det(_, _)
Det(a, n) ==
    IF n = 0 THEN R(1)
    ELSE IF n = 1 THEN a[1][1]
    ELSE RSum([j \in 1..n |->
                 RMul(IF j % 2 = 1 THEN a[1][j] ELSE RNeg(a[1][j]),
                      Det(Minor(a, n, j), n - 1))], n)

ReplaceCol(a, n, k, b) ==
    Arr([r \in 1..n |-> Arr([c \in 1..n |-> IF c = k THEN b[r] ELSE a[r][c]])])

AllFinite(A, b) ==
    /\ \A i \in 1..A.m : \A j \in 1..A.n : Finite(A.a[i][j])
    /\ \A i \in 1..Len(b) : Finite(b[i])

\* scipy.linalg.solve(A, b): a ValueError for a non-finite entry, a
\* LinAlgError for a singular A, otherwise the solution of A beta = b.
la_solve(A, b) ==
    IF ~AllFinite(A, b) THEN [exc |-> "ValueError", beta |-> <<>>]
    ELSE LET det == Det(A.a, A.n)
         IN  IF det = R(0) THEN [exc |-> "LinAlgError", beta |-> <<>>]
             ELSE [exc |-> "none",
                   beta |-> [k \in 1..A.n |->
                               RDiv(Det(ReplaceCol(A.a, A.n, k, b), A.n), det)]]

-----------------------------------------------------------------------------
(* smoothing.py: kernels, design matrix, weighted least squares.           *)

\* box_kernel with the boundary |x| = 1 taken in
box_kernel_closed(z) == IF RLe(RAbs(z), R(1)) THEN <<1, 2>> ELSE R(0)

\* box_kernel on one standardized distance: np.where(np.abs(x) < 1.0, 0.5, 0.0)
box_kernel(z) == IF RLt(RAbs(z), R(1)) THEN <<1, 2>> ELSE R(0)

\* the kernel argument is a function value; the model knows it by name
ApplyKernel(kernel, z) == Arr([i \in 1..Len(z) |-> box_kernel(z[i])])

\* _polynomial(x, degree): np.array([x**p for p in range(degree + 1)]).T
_polynomial(x, degree) ==
    IF degree + 1 <= 0 THEN Empty1D
    ELSE Transpose(Mat(degree + 1, Len(x),
             [p \in 1..(degree + 1) |-> [i \in 1..Len(x) |-> RPow(x[i], p - 1)]]))

\* KernelSmoother._design(self, x) with self._x = sx, self._d = d
_design(sx, d, x) == _polynomial(Arr([i \in 1..Len(sx) |-> RSub(sx[i], x)]), d)

\* KernelSmoother._weights(self, x) with self._x = sx, self._h = h
_weights(sx, h, kernel, x) ==
    LET z == Arr([i \in 1..Len(sx) |-> RDiv(RSub(sx[i], x), h)])
        k == ApplyKernel(kernel, z)
    IN  Arr([i \in 1..Len(sx) |-> RDiv(k[i], h)])

\* _weighted_least_squares that answers a singular system with zeros
\* instead of raising (a least-squares solver in place of la.solve)
wls_never_singular(y, XX, ww) ==
    LET W == Diag(ww) IN
    IF XX.ndim = 1 \/ XX.m # W.m THEN [exc |-> "ValueError", beta |-> <<>>]
    ELSE LET XtW == MatMul(Transpose(XX), W)
             A == MatMul(XtW, XX)
             r == la_solve(A, MatVec(XtW, y))
         IN  IF XtW.n # Len(y) THEN [exc |-> "ValueError", beta |-> <<>>]
             ELSE IF r.exc = "LinAlgError"
                  THEN [exc |-> "none", beta |-> [k \in 1..A.n |-> R(0)]]
                  ELSE r

\* _weighted_least_squares(y, X, w).  A matrix product of mismatched shapes
\* raises ValueError.  (With the empty 1-D design of a negative degree and no
\* training point the products are 0-d scalars; the inputs keep that case out.)
_weighted_least_squares(y, XX, ww) ==
    LET W == Diag(ww) IN
    IF XX.ndim = 1 \/ XX.m # W.m THEN [exc |-> "ValueError", beta |-> <<>>]
    ELSE LET XtW == MatMul(Transpose(XX), W)
             A == MatMul(XtW, XX)
         IN  IF XtW.n # Len(y) THEN [exc |-> "ValueError", beta |-> <<>>]
             ELSE la_solve(A, MatVec(XtW, y))

\* np.asarray(x): no copy, the result is the caller's array
np_asarray(h, src, fresh) == [ref |-> src, heap |-> h]

\* np.array(x): a new array holding a copy of the contents of array src
np_array(h, src, fresh) == [ref |-> fresh, heap |-> [h EXCEPT ![fresh] = h[src]]]

-----------------------------------------------------------------------------
(* KernelSmoother: construction, evaluation, and the caller's own arrays.  *)

CallerX == 1
CallerY == 2
FreshX == 3
FreshY == 4

NoSmoother == [_x |-> 0, _y |-> 0, _h |-> R(0), _d |-> 0, _kernel |-> "none"]
NoMat == Mat(0, 0, <<>>)
NoResult == [kind |-> "none", val |-> <<>>]

XVals == {0, 1, 2}
YVals == {0, 1}
HVals == {1, 2}
DVals == {0, 1}
QVals == {R(1), <<3, 2>>}

SeqsOf(S, lo, hi) == UNION {[1..n -> S] : n \in lo..hi}
RSeq(s) == Arr([i \in 1..Len(s) |-> R(s[i])])

\* the fixture of the specification's testable properties
Fixture == [x |-> RSeq(<<0, 1, 2, 3>>), y |-> RSeq(<<0, 1, 4, 9>>),
            h |-> R(10), d |-> 0]

\* inputs inside the documented contract: len(x) = len(y), h > 0, d >= 0
ValidInputs ==
    UNION {{[x |-> RSeq(xs), y |-> RSeq(ys), h |-> R(h), d |-> d] :
               xs \in [1..n -> XVals], ys \in [1..n -> YVals],
               h \in HVals, d \in DVals} : n \in 0..MaxN}
    \cup {Fixture}

\* every input __init__ accepts, inside the contract or not
AnyInputs ==
    {in \in {[x |-> RSeq(xs), y |-> RSeq(ys), h |-> R(h), d |-> d] :
               xs \in SeqsOf(XVals, 0, MaxN), ys \in SeqsOf(YVals, 0, MaxN),
               h \in HVals \cup {0, -1}, d \in DVals \cup {-1}} :
        in.d < 0 => Len(in.x) > 0}

Queries == SeqsOf(QVals, 0, MaxQ)

IdleSm ==
    /\ heap = [a \in 1..4 |-> <<>>]
    /\ smoother = NoSmoother
    /\ spc = "new"
    /\ xnew = <<>> /\ qi = 0 /\ ynew = <<>>
    /\ X = NoMat /\ w = <<>>
    /\ sres = NoResult
    /\ built = [x |-> <<>>, y |-> <<>>, h |-> R(0), d |-> 0]
    /\ writes = 0

\* the caller fills its arrays x and y and calls KernelSmoother(x, y, kernel, h, d)
Construct(in) ==
    /\ spc = "new"
    /\ LET h0 == [heap EXCEPT ![CallerX] = in.x, ![CallerY] = in.y]
           a == np_array(h0, CallerX, FreshX)
           b == np_array(a.heap, CallerY, FreshY)
       IN  /\ heap' = b.heap
           /\ smoother' = [_x |-> a.ref, _y |-> b.ref, _h |-> in.h,
                           _d |-> in.d, _kernel |-> "box_kernel"]
    /\ built' = in
    /\ spc' = "idle"
    /\ UNCHANGED <<xnew, qi, ynew, X, w, sres, writes>>
    /\ UNCHANGED <<loVars, grVars, edVars>>

\* __call__, lines 31-33: xnew = np.atleast_1d(xnew); ynew = np.zeros(numx)
CallBegin(q) ==
    /\ spc \in {"idle", "raised"}
    /\ xnew' = q
    /\ qi' = 0
    /\ ynew' = [i \in 1..Len(q) |-> R(0)]
    /\ X' = NoMat /\ w' = <<>>
    /\ sres' = NoResult
    /\ spc' = "loop"
    /\ UNCHANGED <<heap, smoother, built, writes>>
    /\ UNCHANGED <<loVars, grVars, edVars>>

\* __call__, lines 35-38: one iteration of the loop over the query points
CallStep ==
    /\ spc = "loop"
    /\ qi < Len(xnew)
    /\ \E XX \in {_design(heap[smoother._x], smoother._d, xnew[qi + 1])} :
       \E ww \in {_weights(heap[smoother._x], smoother._h, smoother._kernel,
                           xnew[qi + 1])} :
       \E r \in {_weighted_least_squares(heap[smoother._y], XX, ww)} :
           /\ X' = XX
           /\ w' = ww
           /\ IF r.exc = "none"
              THEN /\ ynew' = [ynew EXCEPT ![qi + 1] = r.beta[1]]
                   /\ qi' = qi + 1
                   /\ UNCHANGED <<spc, sres>>
              ELSE /\ spc' = "raised"
                   /\ sres' = [kind |-> r.exc, val |-> <<>>]
                   /\ UNCHANGED <<ynew, qi>>
    /\ UNCHANGED <<heap, smoother, xnew, built, writes>>
    /\ UNCHANGED <<loVars, grVars, edVars>>

\* __call__, line 40: return ynew
CallReturn ==
    /\ spc = "loop"
    /\ qi = Len(xnew)
    /\ sres' = [kind |-> "ok", val |-> ynew]
    /\ spc' = "idle"
    /\ ynew' = <<>> /\ X' = NoMat /\ w' = <<>>
    /\ UNCHANGED <<heap, smoother, xnew, qi, built, writes>>
    /\ UNCHANGED <<loVars, grVars, edVars>>

\* between two calls the caller changes an element of its own x or y
CallerWrites ==
    /\ spc \in {"idle", "raised"}
    /\ writes = 0
    /\ \E a \in {CallerX, CallerY} : \E i \in 1..Len(heap[a]) :
          heap' = [heap EXCEPT ![a][i] = RAdd(@, R(1))]
    /\ writes' = 1
    /\ UNCHANGED <<smoother, spc, xnew, qi, ynew, X, w, sres, built>>
    /\ UNCHANGED <<loVars, grVars, edVars>>

-----------------------------------------------------------------------------
(* smoothing.py: smooth, loo_estimates, estimate_bandwidth.                *)

\* one more iteration of a loop that fills an output array: after the
\* iterations before it (prev) the fit r either adds its estimate or raises
Iteration(prev, r) ==
    IF prev.exc # "none" THEN prev
    ELSE IF r.exc # "none" THEN [exc |-> r.exc, val |-> <<>>]
    ELSE [exc |-> "none", val |-> Append(prev.val, r.beta[1])]

\* KernelSmoother.__call__ on the first k query points: the estimates, or
\* the exception of the first query point whose fit fails
RECURSIVE CallUpTo(_, _, _, _, _, _, _)
CallUpTo(sx, sy, h, d, kernel, q, k) ==
    IF k = 0 THEN [exc |-> "none", val |-> <<>>]
    ELSE Iteration(CallUpTo(sx, sy, h, d, kernel, q, k - 1),
                   _weighted_least_squares(sy, _design(sx, d, q[k]),
                                           _weights(sx, h, kernel, q[k])))

\* smooth with a failing fit turned into an estimate of 0
smooth_default(x, y, q, kernel, bandwidth, degree) ==
    LET r == CallUpTo(x, y, bandwidth, degree, kernel, q, Len(q))
    IN  IF r.exc = "none" THEN r
        ELSE [exc |-> "none", val |-> [k \in 1..Len(q) |-> R(0)]]

\* smooth(x, y, xnew, kernel, bandwidth, degree)
smooth(x, y, q, kernel, bandwidth, degree) ==
    CallUpTo(x, y, bandwidth, degree, kernel, q, Len(q))

\* x[sel] for a boolean array sel: the selected elements, in order
RECURSIVE BoolIndexUpTo(_, _, _)
BoolIndexUpTo(x, sel, n) ==
    IF n = 0 THEN <<>>
    ELSE IF sel[n] THEN Append(BoolIndexUpTo(x, sel, n - 1), x[n])
    ELSE BoolIndexUpTo(x, sel, n - 1)
BoolIndex(x, sel) == BoolIndexUpTo(x, sel, Len(x))

\* holdout = mask == i, with mask = np.arange(numx)
Holdout(numx, i) == [j \in 1..numx |-> (j - 1) = i]

\* the training part with nothing held out
Training_all(x, holdout) == x

\* x[~holdout]
Training(x, holdout) == BoolIndex(x, [j \in 1..Len(holdout) |-> ~holdout[j]])

\* np.argmin picking the last minimum
RECURSIVE np_argmin_last(_, _)
np_argmin_last(v, k) ==
    IF k = 1 THEN 0
    ELSE LET b == np_argmin_last(v, k - 1)
         IN  IF RLe(v[k], v[b + 1]) THEN k - 1 ELSE b

\* np.argmin over v[1..k]: 0-based index of the first minimum
RECURSIVE np_argmin(_, _)
np_argmin(v, k) ==
    IF k = 1 THEN 0
    ELSE LET b == np_argmin(v, k - 1)
         IN  IF RLt(v[k], v[b + 1]) THEN k - 1 ELSE b

\* np.mean((y - yhat)**2)
MeanSquaredError(y, yhat) ==
    RDiv(RSum([i \in 1..Len(y) |->
                  RMul(RSub(y[i], yhat[i]), RSub(y[i], yhat[i]))], Len(y)),
         R(Len(y)))

\* sample locations and candidate bandwidths of estimate_bandwidth: under
\* bandwidth 1 only samples at the held-out location weigh, under 2 all do
LooXVals == {0, 1}
BwVals == {1, 2}

\* the one-element result of a call, as the fit that gave its element
ScalarOf(r) == [exc |-> r.exc, beta |-> r.val]

\* loo_estimates, line 124: smoother(x[~holdout], y[~holdout], x[holdout]),
\* a one-element array whose element becomes yhat[i]
LooFit(x, y, kernel, bandwidth, degree, holdout) ==
    ScalarOf(smooth(Training(x, holdout), Training(y, holdout),
                    BoolIndex(x, holdout), kernel, bandwidth, degree))

\* loo_estimates on the first k samples (lines 122-124): the predictions,
\* or the exception of the first fit that fails
RECURSIVE LooUpTo(_, _, _, _, _, _)
LooUpTo(x, y, kernel, bandwidth, degree, k) ==
    IF k = 0 THEN [exc |-> "none", val |-> <<>>]
    ELSE Iteration(LooUpTo(x, y, kernel, bandwidth, degree, k - 1),
                   LooFit(x, y, kernel, bandwidth, degree, Holdout(Len(x), k - 1)))

\* loo_estimates(x, y, kernel, bandwidth, degree)
loo_estimates(x, y, kernel, bandwidth, degree) ==
    LooUpTo(x, y, kernel, bandwidth, degree, Len(x))

\* estimate_bandwidth(x, y, box_kernel, bandwidths, degree) is called with
\* n >= 1 samples and a non-empty candidate list; line 89 has run
StartLoo ==
    /\ \E n \in 1..MaxLooN : \E xs \in [1..n -> LooXVals] : \E ys \in [1..n -> YVals] :
          /\ ex = RSeq(xs)
          /\ ey = RSeq(ys)
    /\ \E bs \in SeqsOf(BwVals, 1, MaxCand) :
          /\ ebw = RSeq(bs)
          /\ emse = Arr([k \in 1..Len(bs) |-> R(0)])
    /\ edeg \in DVals
    /\ epc = "loop"
    /\ ei = 0
    /\ lyhat = <<>>
    /\ eres = NoResult

\* estimate_bandwidth, lines 91-93: one candidate bandwidth
EvaluateCandidate ==
    /\ epc = "loop"
    /\ ei < Len(ebw)
    /\ \E r \in {loo_estimates(ex, ey, "box_kernel", ebw[ei + 1], edeg)} :
           IF r.exc = "none"
           THEN /\ lyhat' = r.val
                /\ emse' = [emse EXCEPT ![ei + 1] = MeanSquaredError(ey, r.val)]
                /\ ei' = ei + 1
                /\ UNCHANGED <<epc, eres>>
           ELSE /\ epc' = "raised"
                /\ eres' = [kind |-> r.exc, val |-> <<>>]
                /\ UNCHANGED <<lyhat, emse, ei>>
    /\ UNCHANGED <<ex, ey, ebw, edeg>>
    /\ UNCHANGED <<smVars, grVars, edVars>>

\* estimate_bandwidth, line 95: return bandwidths[np.argmin(mse)]
ReturnBandwidth ==
    /\ epc = "loop"
    /\ ei = Len(ebw)
    /\ eres' = [kind |-> "ok", val |-> <<ebw[np_argmin(emse, Len(emse)) + 1]>>]
    /\ epc' = "returned"
    /\ UNCHANGED <<ex, ey, ebw, edeg, ei, emse, lyhat>>
    /\ UNCHANGED <<smVars, grVars, edVars>>

-----------------------------------------------------------------------------
IdleLo ==
    /\ ex = <<>> /\ ey = <<>> /\ ebw = <<>> /\ edeg = 0
    /\ epc = "off" /\ ei = 0 /\ emse = <<>> /\ lyhat = <<>>
    /\ eres = NoResult

IdleGr ==
    /\ gf = <<>> /\ gg = <<>> /\ gi = 0 /\ gforw = <<>>
    /\ gpc = "off" /\ gres = NoResult

IdleEd ==
    /\ spr = <<>> /\ flen = 0 /\ fpos = 0 /\ chan = 0 /\ record = 0
    /\ signals = <<>> /\ dpc = "off"

-----------------------------------------------------------------------------
(* The smoother used inside its contract, and used with any input.         *)

InitSmoother == IdleSm /\ IdleLo /\ IdleGr /\ IdleEd

NextSmoother ==
    \/ \E in \in ValidInputs : Construct(in)
    \/ \E q \in Queries : CallBegin(q)
    \/ CallStep
    \/ CallReturn
    \/ CallerWrites

SpecSmoother == InitSmoother /\ [][NextSmoother]_vars

NextAnyInput ==
    \/ \E in \in AnyInputs : Construct(in)
    \/ \E q \in Queries : CallBegin(q)
    \/ CallStep
    \/ CallReturn
    \/ CallerWrites

SpecAnyInput == InitSmoother /\ [][NextAnyInput]_vars

-----------------------------------------------------------------------------
(* Claims about KernelSmoother, stated over the sample set and the         *)
(* configuration that were given to __init__ (built).                      *)

Inside(xi, q, h) == RLt(RAbs(RSub(xi, q)), h)

\* training locations within the bandwidth of q
Support(q) ==
    {built.x[i] : i \in {j \in 1..Len(built.x) : Inside(built.x[j], q, built.h)}}

\* fewer than degree + 1 distinct training locations within the bandwidth of q
SingularAt(q) == Cardinality(Support(q)) < built.d + 1

\* training locations that got a non-zero weight in the last iteration
Weighted == {built.x[i] : i \in {j \in 1..Len(w) : w[j] # R(0)}}

\* the query point of the last iteration of the loop, when there was one
Iterated == (spc = "loop" /\ qi > 0) \/ spc = "raised"
LastQ == IF spc = "raised" THEN xnew[qi + 1] ELSE xnew[qi]

\* C4: an evaluation never returns estimates, and never gets past a query
\* point, when at that point fewer than degree + 1 distinct training
\* locations have a non-zero weight (box kernel: lie within the bandwidth);
\* it raises LinAlgError there and hands the caller nothing.
C4_SingularRaises ==
    /\ sres.kind = "ok" =>
          /\ Len(sres.val) = Len(xnew)
          /\ \A j \in 1..Len(xnew) : ~SingularAt(xnew[j])
    /\ spc = "loop" => \A j \in 1..qi : ~SingularAt(xnew[j])
    /\ (spc = "loop" /\ qi > 0) => Cardinality(Weighted) >= built.d + 1
    /\ spc = "raised" =>
          /\ SingularAt(xnew[qi + 1])
          /\ Cardinality(Weighted) < built.d + 1
          /\ sres = [kind |-> "LinAlgError", val |-> <<>>]

\* C4 witness: the second query point is singular after the first one
\* succeeded; the estimate already computed is not returned
C4_Witness ==
    /\ spc = "raised" /\ qi = 1
    /\ ynew[1] # R(0)
    /\ Len(built.x) > 0
    /\ sres.val = <<>>

\* the estimate of a smoother with the given samples and configuration
\* (nan when they give none)
EstimateOf(b, q) ==
    LET r == _weighted_least_squares(b.y, _design(b.x, b.d, q),
                                     _weights(b.x, b.h, "box_kernel", q))
    IN  IF r.exc = "none" THEN r.beta[1] ELSE NaN

\* C7: whatever calls and caller-side writes happened, the smoother holds
\* the samples and configuration it was built with, and every returned
\* estimate is the one those samples give for its query point.
C7_Immutable ==
    spc # "new" =>
        /\ heap[smoother._x] = built.x
        /\ heap[smoother._y] = built.y
        /\ smoother._h = built.h
        /\ smoother._d = built.d
        /\ smoother._kernel = "box_kernel"
        /\ sres.kind = "ok" =>
              sres.val = [j \in 1..Len(xnew) |-> EstimateOf(built, xnew[j])]

\* C7 witness: estimates returned after the caller changed its own x
C7_Witness ==
    /\ writes = 1
    /\ heap[CallerX] # built.x
    /\ sres.kind = "ok" /\ Len(sres.val) = 2

Mean(y) == RDiv(RSum(y, Len(y)), R(Len(y)))

\* C8: the weights are kernel((x_i - q) / h) / h, i.e. 0.5 / h strictly
\* inside the bandwidth and 0 from distance h on; for degree 0 the estimate
\* is sum(w_i y_i) / sum(w_i), and the mean of y when every point is inside
\* (3.5 for the fixture at q = 1.5).
C8_WeightedAverage ==
    Iterated =>
        LET q == LastQ
            n == Len(built.x)
            wi == [i \in 1..n |->
                     RDiv(IF Inside(built.x[i], q, built.h) THEN <<1, 2>> ELSE R(0),
                          built.h)]
            wy == [i \in 1..n |-> RMul(wi[i], built.y[i])]
        IN  /\ w = wi
            /\ \A i \in 1..n :
                  RAbs(RSub(built.x[i], q)) = built.h => w[i] = R(0)
            /\ (spc = "loop" /\ built.d = 0) =>
                  /\ ynew[qi] = RDiv(RSum(wy, n), RSum(wi, n))
                  /\ (\A i \in 1..n : Inside(built.x[i], q, built.h)) =>
                        /\ \A i \in 1..n : w[i] = RDiv(<<1, 2>>, built.h)
                        /\ ynew[qi] = Mean(built.y)
                  /\ (built = Fixture /\ q = <<3, 2>>) => ynew[qi] = <<7, 2>>

\* C8 witness: the fixture evaluated at q = 1.5 gives 3.5
C8_Witness ==
    /\ spc = "loop" /\ qi > 0
    /\ built = Fixture
    /\ xnew[qi] = <<3, 2>>
    /\ ynew[qi] = <<7, 2>>

\* a training point at distance exactly h got weight 0 beside one inside
C8_BoundaryReached ==
    /\ Iterated
    /\ \E i \in 1..Len(built.x) : RAbs(RSub(built.x[i], LastQ)) = built.h
    /\ \E i \in 1..Len(w) : w[i] # R(0)

\* C5 as claimed: no smoother exists whose x and y differ in length
C5_LengthMismatchRejected ==
    spc # "new" => Len(heap[smoother._x]) = Len(heap[smoother._y])

\* C5, second half as claimed: with x and y of different length no call
\* returns normally and no design matrix or weight vector is computed
C5_NothingComputed ==
    Len(built.x) # Len(built.y) => (sres.kind # "ok" /\ X = NoMat /\ w = <<>>)

\* C6 as claimed: no smoother exists with h <= 0 or d < 0
C6_InvalidConfigRejected ==
    spc # "new" => (RLt(R(0), smoother._h) /\ smoother._d >= 0)

\* C6, as claimed: the failure is never deferred to (or absent from) a call
C6_NoEstimateFromInvalid ==
    sres.kind = "ok" /\ Len(sres.val) > 0 => RLt(R(0), built.h)

-----------------------------------------------------------------------------
(* Bandwidth selection by leave-one-out cross validation.                  *)

InitLoo == IdleSm /\ StartLoo /\ IdleGr /\ IdleEd

NextLoo ==
    \/ EvaluateCandidate
    \/ ReturnBandwidth

SpecLoo == InitLoo /\ [][NextLoo]_vars

RemoveAt(s, i) == SubSeq(s, 1, i - 1) \o SubSeq(s, i + 1, Len(s))

\* the samples without sample i, with candidate bandwidth k
Fold(k, i) == [x |-> RemoveAt(ex, i), y |-> RemoveAt(ey, i),
               h |-> ebw[k], d |-> edeg]

\* fold i of candidate k has fewer than degree + 1 distinct training
\* locations within the bandwidth of x_i: its system is singular
FoldFails(k, i) ==
    Cardinality({ex[j] : j \in {m \in 1..Len(ex) :
                                  m # i /\ Inside(ex[m], ex[i], ebw[k])}})
        < edeg + 1

\* the leave-one-out mean squared error of candidate k
LooMse(k) ==
    MeanSquaredError(ey, [i \in 1..Len(ex) |-> EstimateOf(Fold(k, i), ex[i])])

IsMin(k) == \A j \in 1..Len(ebw) : RLe(emse[k], emse[j])

C2_LeaveOneOut ==
    /\ [](ei > 0 =>
            /\ Len(lyhat) = Len(ex)
            /\ \A i \in 1..Len(ex) : lyhat[i] = EstimateOf(Fold(ei, i), ex[i]))
    /\ [][ex' = ex /\ ey' = ey]_vars

\* C2 witness: n = 3 predictions returned, one of them differing from the
\* estimate that the smoother built from all three samples gives
C2_Witness ==
    /\ ei > 0
    /\ Len(ex) = 3 /\ Len(lyhat) = 3
    /\ \E i \in 1..3 :
          lyhat[i] # EstimateOf([x |-> ex, y |-> ey, h |-> ebw[ei], d |-> edeg],
                                ex[i])

\* C3: no bandwidth is returned when some leave-one-out fit of some
\* candidate is singular; a candidate whose fit fails gets no mean squared
\* error, and the selection ends with the LinAlgError and no value.
C3_FailurePropagates ==
    /\ epc = "returned" =>
          \A k \in 1..Len(ebw) : \A i \in 1..Len(ex) : ~FoldFails(k, i)
    /\ \A k \in 1..ei : \A i \in 1..Len(ex) : ~FoldFails(k, i)
    /\ epc = "raised" =>
          /\ \E i \in 1..Len(ex) : FoldFails(ei + 1, i)
          /\ eres = [kind |-> "LinAlgError", val |-> <<>>]

\* C3 witness: the second candidate fails after the first was evaluated
C3_Witness ==
    /\ epc = "raised"
    /\ ei = 1
    /\ emse[1] # R(0)
    /\ eres.val = <<>>

-----------------------------------------------------------------------------
(* optim.py: check_gradient and gradient.  f is known by its values at x   *)
(* and at the n points x + s*e_i, g by its value at x.                     *)

\* 1 / _DEFAULT_STEP, the step being 1e-8
StepInv == 100000000
_DEFAULT_STEP == <<1, StepInv>>

FVals == {-1, 0, 1}
GVals == {-StepInv, 0, StepInv}

\* np.max over v[1..k]
RECURSIVE np_max(_, _)
np_max(v, k) ==
    IF k = 1 THEN v[1]
    ELSE LET m == np_max(v, k - 1) IN IF RLt(m, v[k]) THEN v[k] ELSE m

\* check_gradient(f, g, x) is called with x of dimension n >= 1 and has
\* entered gradient(f, x); lines 73-77 have run
StartGradient ==
    /\ \E n \in 1..MaxDim :
          /\ \E fs \in [1..(n + 1) -> FVals] : gf = RSeq(fs)
          /\ \E gs \in [1..n -> GVals] : gg = RSeq(gs)
          /\ gforw = Arr([i \in 1..n |-> R(0)])
    /\ gi = 0
    /\ gpc = "gradient"
    /\ gres = NoResult

\* gradient, lines 78-79: forw[i] = f(x + s*e[i])
GradientIter ==
    /\ gpc = "gradient"
    /\ gi < Len(gg)
    /\ gforw' = [gforw EXCEPT ![gi + 1] = gf[gi + 2]]
    /\ gi' = gi + 1
    /\ UNCHANGED <<gf, gg, gpc, gres>>
    /\ UNCHANGED <<smVars, loVars, edVars>>

\* gradient, lines 81-82: g = (forw - f(x)) / s
FiniteDifference(forw, fx, s) ==
    Arr([i \in 1..Len(forw) |-> RDiv(RSub(forw[i], fx), s)])

\* check_gradient, line 35: return np.max(g(x) - gradient(f, x))
CheckGradientReturn ==
    /\ gpc = "gradient"
    /\ gi = Len(gg)
    /\ \E fd \in {FiniteDifference(gforw, gf[1], _DEFAULT_STEP)} :
          gres' = [kind |-> "ok",
                   val |-> <<np_max(Arr([i \in 1..Len(gg) |-> RSub(gg[i], fd[i])]),
                                    Len(gg))>>]
    /\ gpc' = "returned"
    /\ UNCHANGED <<gf, gg, gi, gforw>>
    /\ UNCHANGED <<smVars, loVars, edVars>>

InitGradient == IdleSm /\ IdleLo /\ StartGradient /\ IdleEd

NextGradient ==
    \/ GradientIter
    \/ CheckGradientReturn

SpecGradient == InitGradient /\ [][NextGradient]_vars

\* |g(x)[i] - (f(x + s*e_i) - f(x)) / s|
AbsDifference(i) ==
    RAbs(RSub(gg[i], RDiv(RSub(gf[i + 1], gf[1]), _DEFAULT_STEP)))

\* C9 as claimed: check_gradient returns the largest absolute difference
\* between the components of g(x) and of the finite-difference gradient,
\* which is never negative.
C9_InfinityNorm ==
    gpc = "returned" =>
        /\ \E i \in 1..Len(gg) : gres.val[1] = AbsDifference(i)
        /\ \A i \in 1..Len(gg) : RLe(AbsDifference(i), gres.val[1])
        /\ RLe(R(0), gres.val[1])

-----------------------------------------------------------------------------
(* edf.py: the loop of _read_signals over _read_record.  The file is a     *)
(* position in flen bytes; the contents of the samples play no part.       *)

_RAW_INT_SIZE == 2

\* _bytes_per_record(channel, header)
_bytes_per_record(channel) == spr[channel + 1] * _RAW_INT_SIZE

\* edf_file.read(num_bytes): the number of bytes it returns
Read(num_bytes) == IF flen - fpos < num_bytes THEN flen - fpos ELSE num_bytes

\* a read counted as short only when it returns nothing
IsShortRead_empty(got, num_bytes) == got = 0 /\ num_bytes > 0

\* _read_record, line 156: not len(raw_bytes) == num_bytes
IsShortRead(got, num_bytes) == ~(got = num_bytes)

\* _read_signals is called after the header was read; line 120 has run
StartSignals ==
    /\ \E nsig \in 0..MaxSignals :
          /\ spr \in [1..nsig -> 0..MaxSpr]
          /\ signals = Arr([c \in 1..nsig |-> 0])
    /\ flen \in 0..MaxFileLen
    /\ fpos = 0
    /\ chan = 0
    /\ record = 0
    /\ dpc = "reading"

\* _read_record, lines 153-161: one channel of the record; a short read
\* raises EOFError, which _read_signals catches to leave its loop (125-126),
\* the record read so far being dropped
ReadChannel ==
    /\ dpc = "reading"
    /\ chan < Len(spr)
    /\ \E got \in {Read(_bytes_per_record(chan))} :
          /\ fpos' = fpos + got
          /\ IF IsShortRead(got, _bytes_per_record(chan))
             THEN /\ dpc' = "left"
                  /\ record' = 0
                  /\ chan' = 0
             ELSE /\ record' = record + 1
                  /\ chan' = chan + 1
                  /\ UNCHANGED dpc
    /\ UNCHANGED <<spr, flen, signals>>
    /\ UNCHANGED <<smVars, loVars, grVars>>

\* _read_record returns; _read_signals, lines 128-129, appends each
\* channel of the record to its list.  (A loop that reads no byte goes on for
\* ever; the model follows it for MaxFileLen records, more than a file of
\* MaxFileLen bytes holds when a record has a byte.)
AppendRecord ==
    /\ dpc = "reading"
    /\ chan = Len(spr)
    /\ \A c \in 1..Len(signals) : signals[c] < MaxFileLen
    /\ signals' = [c \in 1..Len(signals) |-> signals[c] + 1]
    /\ chan' = 0
    /\ record' = 0
    /\ UNCHANGED <<spr, flen, fpos, dpc>>
    /\ UNCHANGED <<smVars, loVars, grVars>>

InitSignals == IdleSm /\ IdleLo /\ IdleGr /\ StartSignals

NextSignals ==
    \/ ReadChannel
    \/ AppendRecord

\* the interpreter keeps executing the loop: a step that can be taken is taken
SpecSignals == InitSignals /\ [][NextSignals]_vars /\ WF_vars(NextSignals)

RECURSIVE RSumInt(_, _)
RSumInt(f, n) == IF n = 0 THEN 0 ELSE RSumInt(f, n - 1) + f[n]

SomePositive == \E c \in 1..Len(spr) : spr[c] > 0
RecordBytes == RSumInt(spr, Len(spr)) * _RAW_INT_SIZE

=============================================================================
